---- MODULE Spec2Model ----
(***************************************************************************)
(* flight-service/server.js: an in-memory store of simulated flights that  *)
(* are advanced by dead reckoning each time they are read over HTTP.       *)
(*                                                                         *)
(* Numbers.  The JavaScript code computes in IEEE doubles; TLC has only    *)
(* integers.  Angles (latitude, longitude, heading, bearing) are whole     *)
(* degrees, sines and cosines are fixed-point numbers with One = 1.0,      *)
(* distances are whole kilometres and times are milliseconds.  Every       *)
(* formula of the source is kept, operation by operation, on these         *)
(* numbers; the JavaScript remainder operator % (sign of the dividend) is  *)
(* modelled by JsMod, not by the TLA+ operator % (never negative).         *)
(*                                                                         *)
(* Inputs.  Date.now() and Math.random() are inputs of the program: the    *)
(* clock reads any of a few instants, in any order, and the random draws   *)
(* come from the small sets named below.                                   *)
(***************************************************************************)
EXTENDS Integers, Sequences, FiniteSets, TLC

VARIABLES
    FLIGHTS,   \* the Map id -> flight record                     (line 99)
    res,       \* the last HTTP response sent
    last,      \* per flight, the locals of its last tick: now (line 108) and
               \* whether the branch of line 122 was taken
    conc,      \* concurrent requests: per request its handler's position and locals
    pick,      \* one call of pickDifferentAirports, statement by statement
    mv         \* one call of move: its arguments and its result

vars == <<FLIGHTS, res, last, conc, pick, mv>>

-----------------------------------------------------------------------------
(* Bounds of the model *)

\* Clock readings are multiples of 7.5 minutes: 0 .. MaxTick * 450000 ms.
MaxTick == 4

\* Clock readings of the concurrent specification.
MaxConcTick == 2

\* Number of requests in flight in the concurrent specification.
MaxReq == 2

-----------------------------------------------------------------------------
(* Arithmetic *)

Abs(x) == IF x < 0 THEN -x ELSE x

Max(a, b) == IF a >= b THEN a ELSE b

\* JavaScript a % n for n > 0: truncated division, the result has the sign of a.
JsMod(a, n) == IF a >= 0 THEN a % n ELSE -((-a) % n)

\* sin of 0..90 degrees in fixed point, SinTab[d + 1] = round(10000 * sin d).
SinTab ==
    << 0, 175, 349, 523, 698, 872, 1045, 1219, 1392, 1564, 1736, 1908, 2079,
       2250, 2419, 2588, 2756, 2924, 3090, 3256, 3420, 3584, 3746, 3907, 4067, 4226,
       4384, 4540, 4695, 4848, 5000, 5150, 5299, 5446, 5592, 5736, 5878, 6018, 6157,
       6293, 6428, 6561, 6691, 6820, 6947, 7071, 7193, 7314, 7431, 7547, 7660, 7771,
       7880, 7986, 8090, 8192, 8290, 8387, 8480, 8572, 8660, 8746, 8829, 8910, 8988,
       9063, 9135, 9205, 9272, 9336, 9397, 9455, 9511, 9563, 9613, 9659, 9703, 9744,
       9781, 9816, 9848, 9877, 9903, 9925, 9945, 9962, 9976, 9986, 9994, 9998, 10000 >>

\* The fixed-point 1.0.
One == SinTab[91]

SinDeg ==
    [r \in 0..359 |->
        IF r <= 90 THEN SinTab[r + 1]
        ELSE IF r <= 180 THEN SinTab[181 - r]
        ELSE IF r <= 270 THEN -SinTab[r - 179]
        ELSE -SinTab[361 - r]]

\* Math.sin and Math.cos of an angle in degrees.
Sin(d) == SinDeg[d % 360]

Cos(d) == SinDeg[(d + 90) % 360]

\* The angle in 0..90 degrees whose sine is nearest to v, for v in 0..One.
AsinDeg ==
    [v \in 0..One |->
        CHOOSE a \in 0..90 :
            /\ (a = 0 \/ 2 * v > Sin(a - 1) + Sin(a))
            /\ (a = 90 \/ 2 * v <= Sin(a) + Sin(a + 1))]

\* Math.asin in degrees, in -90..90.
Asin(v) == IF v >= 0 THEN AsinDeg[v] ELSE -AsinDeg[-v]

\* atan of a ratio q in 0..One (fixed point), in 0..45 degrees: the first angle a
\* after which q cos - sin is negative on balance, found by bisection of lo..hi.
RECURSIVE AtanIn(_, _, _)
AtanIn(q, lo, hi) ==
    IF lo = hi THEN lo
    ELSE LET a == (lo + hi) \div 2
         IN  IF (q * Cos(a) - One * Sin(a)) + (q * Cos(a + 1) - One * Sin(a + 1)) <= 0
             THEN AtanIn(q, lo, a)
             ELSE AtanIn(q, a + 1, hi)

AtanDeg == [q \in 0..One |-> AtanIn(q, 0, 45)]

\* atan of y / x for y, x >= 0, in 0..90 degrees; 0 for y = x = 0.
AtanQ(y, x) ==
    IF y = 0 THEN 0
    ELSE IF y <= x THEN AtanDeg[(y * One) \div x]
    ELSE 90 - AtanDeg[(x * One) \div y]

\* Math.atan2 in degrees, in -180..180.
Atan2(y, x) ==
    LET a == AtanQ(Abs(y), Abs(x))
        b == IF x >= 0 THEN a ELSE 180 - a
    IN  IF y >= 0 THEN b ELSE -b

RECURSIVE SqrtIn(_, _, _)
SqrtIn(n, lo, hi) ==
    IF lo = hi THEN lo
    ELSE LET mid == (lo + hi + 1) \div 2
         IN  IF mid * mid <= n THEN SqrtIn(n, mid, hi) ELSE SqrtIn(n, lo, mid - 1)

SqrtFix == [s \in 0..One |-> SqrtIn(s * One, 0, One)]

\* Math.sqrt of a fixed-point s in 0..One.
Sqrt(s) == SqrtFix[s]

-----------------------------------------------------------------------------
(* Geodesy *)

\* Earth radius in km.
R == 6371

\* An arc of km kilometres as an angle: (km / R) radians, in degrees
\* (one degree of arc is 111.195 km).
ArcDeg(km) == (km * 1000 + 55597) \div 111195

\* An angle of d degrees of arc as a length: (d * PI / 180) * 2 * R.
TwoRTimes(d) == ((((2 * R) * d) \div 180) * 31416) \div 10000

AIRPORTS ==
    << [iata |-> "JFK", lat |-> 41, lon |-> -74],
       [iata |-> "LAX", lat |-> 34, lon |-> -118],
       [iata |-> "ORD", lat |-> 42, lon |-> -88],
       [iata |-> "DFW", lat |-> 33, lon |-> -97],
       [iata |-> "YYZ", lat |-> 44, lon |-> -80],
       [iata |-> "CDG", lat |-> 49, lon |-> 3],
       [iata |-> "LHR", lat |-> 51, lon |-> 0],
       [iata |-> "DXB", lat |-> 25, lon |-> 55],
       [iata |-> "HND", lat |-> 36, lon |-> 140],
       [iata |-> "SYD", lat |-> -34, lon |-> 151] >>

\* Compute initial bearing degrees between two points.
bearingDegrees(from, to) ==
    LET dl == to.lon - from.lon
        y  == (Sin(dl) * Cos(to.lat)) \div One
        x  == (Cos(from.lat) * Sin(to.lat)) \div One
              - (((Sin(from.lat) * Cos(to.lat)) \div One) * Cos(dl)) \div One
        th == Atan2(y, x)
    IN  JsMod(th + 360, 360)

\* The longitude of move's result from the unnormalised longitude l2:
\* ((l2 + 540) % 360) - 180.
normLonShort(l2) == JsMod(l2 + 180, 360) - 180

normLon(l2) == JsMod(l2 + 540, 360) - 180

\* Move a lat/lon by distance (km) along a bearing (deg).
move(from, bearingDeg, distanceKm) ==
    LET d     == ArcDeg(distanceKm)
        sinp1 == Sin(from.lat)
        cosp1 == Cos(from.lat)
        sind  == Sin(d)
        cosd  == Cos(d)
        sint  == Sin(bearingDeg)
        cost  == Cos(bearingDeg)
        sinp2 == (sinp1 * cosd + ((cosp1 * sind) \div One) * cost) \div One
        p2    == Asin(sinp2)
        y     == (((sint * sind) \div One) * cosp1) \div One
        x     == cosd - (sinp1 * sinp2) \div One
        l2    == from.lon + Atan2(y, x)
    IN  [lat |-> p2, lon |-> normLon(l2)]

\* sin(d / 2) ^ 2, by the half-angle identity (1 - cos d) / 2.
SinHalfSq(d) == (One - Cos(d)) \div 2

\* Haversine distance (km).
distanceKm(a, b) ==
    LET s == SinHalfSq(b.lat - a.lat)
             + (((Cos(a.lat) * Cos(b.lat)) \div One) * SinHalfSq(b.lon - a.lon)) \div One
    IN  TwoRTimes(Asin(Sqrt(s)))

-----------------------------------------------------------------------------
(* Inputs: the clock and the random source *)

\* Date.now(): any of these readings, in any order (the wall clock may step back).
Times == {k * 450000 : k \in 0..MaxTick}

\* Math.floor(Math.random() * AIRPORTS.length) + 1: the indices the model draws
\* (LAX, CDG, LHR, DXB).
Drawn == {2, 6, 7, 8}

\* (Math.random() * 2 - 1) * 2 lies in [-2, 2): the whole degrees the model draws.
Jitter == {-2, 1}

\* Math.floor(380 + Math.random() * 180).
Speeds == {480}

\* Math.floor(28000 + Math.random() * 12000).
Altitudes == {28000}

\* Math.floor(Math.random() * 9999), before padding.
CallNumbers == {42}

\* Math.random() * 50 + 10, in km.
StartKms == {10, 59}

\* nanoid(8): the identifiers in the store, and one that is not.  The source
\* creates FLIGHT_COUNT = 20 flights; tick(f) reads and writes f alone, and the
\* model keeps one flight.
Ids == {"f1"}

UnknownId == "nope"

\* A value that is none of the program's records (undefined, no response yet).
Undefined == [undefined |-> TRUE]

-----------------------------------------------------------------------------
(* Flight generator *)

\* The pairs a call of pickDifferentAirports can return: the loop of line 69
\* is left only with to.iata # from.iata.
pickAnyAirports ==
    {[from |-> AIRPORTS[i], to |-> AIRPORTS[j]] : i \in Drawn, j \in Drawn}

pickDifferentAirports ==
    {p \in {[from |-> AIRPORTS[i], to |-> AIRPORTS[j]] : i \in Drawn, j \in Drawn} :
        ~(p.to.iata = p.from.iata)}

\* String(n).padStart(4, '0') after the prefix CC, for n in 0..9998.
callsignOf(n) ==
    LET digit == [d \in 0..9 |-> <<"0", "1", "2", "3", "4", "5", "6", "7", "8", "9">>[d + 1]]
    IN  <<"C", "C", digit[(n \div 1000) % 10], digit[(n \div 100) % 10],
          digit[(n \div 10) % 10], digit[n % 10]>>

\* The random draws of one makeFlight call.
MakeRandom ==
    [pair : pickDifferentAirports, speed : Speeds, alt : Altitudes,
     call : CallNumbers, startKm : StartKms]

makeFlight(id, t, rnd) ==
    LET heading == bearingDegrees(rnd.pair.from, rnd.pair.to)
        start   == move([lat |-> rnd.pair.from.lat, lon |-> rnd.pair.from.lon],
                        heading, rnd.startKm)
    IN  [id         |-> id,
         callsign   |-> callsignOf(rnd.call),
         from       |-> rnd.pair.from.iata,
         to         |-> rnd.pair.to.iata,
         lat        |-> start.lat,
         lon        |-> start.lon,
         heading    |-> heading,
         speedKts   |-> rnd.speed,
         altitudeFt |-> rnd.alt,
         createdAt  |-> t,
         updatedAt  |-> t]

-----------------------------------------------------------------------------
(* Tick engine *)

\* Within this many km of the destination the flight is re-routed.
ArriveKm == 30

\* Line 109: Math.max(0, now - f.updatedAt), in ms.
elapsedAbs(f, t) == Abs(t - f.updatedAt)

elapsed(f, t) == Max(0, t - f.updatedAt)

\* Line 110: if (dtHours <= 0) return f.
noTimePassedStrict(dt) == dt < 0

noTimePassed(dt) == dt <= 0

\* Lines 111-112: kmPerHr = speedKts * 1.852; stepKm = kmPerHr * dtHours.
stepKm(f, dt) == (((f.speedKts * 1852) \div 1000) * (dt \div 1000)) \div 3600

\* Lines 114-117: overwrite the position by the dead-reckoned one.
tickMove(f, km) ==
    LET next == move([lat |-> f.lat, lon |-> f.lon], f.heading, km)
    IN  [f EXCEPT !.lat = next.lat, !.lon = next.lon]

\* Line 118.
tickStamp(f, t) == [f EXCEPT !.updatedAt = t]

\* Line 121: AIRPORTS.find(a => a.iata === code).
find(code) ==
    IF \E i \in 1..Len(AIRPORTS) : AIRPORTS[i].iata = code
    THEN AIRPORTS[CHOOSE i \in 1..Len(AIRPORTS) :
                      /\ AIRPORTS[i].iata = code
                      /\ \A j \in 1..(i - 1) : AIRPORTS[j].iata # code]
    ELSE Undefined

\* Line 122: dest && distanceKm({lat: f.lat, lon: f.lon}, dest) < 30.
arrivedAnywhere(f) == find(f.to) # Undefined

arrived(f) ==
    LET dest == find(f.to)
    IN  /\ dest # Undefined
        /\ distanceKm([lat |-> f.lat, lon |-> f.lon], dest) < ArriveKm

\* Lines 122-127: if near destination, re-route.
tickArriveTeleports(f, pair) ==
    IF arrived(f)
    THEN [f EXCEPT !.from = pair.from.iata,
                   !.to = pair.to.iata,
                   !.heading = bearingDegrees(pair.from, pair.to),
                   !.lat = pair.from.lat,
                   !.lon = pair.from.lon]
    ELSE f

tickArrive(f, pair) ==
    IF arrived(f)
    THEN [f EXCEPT !.from = pair.from.iata,
                   !.to = pair.to.iata,
                   !.heading = bearingDegrees(pair.from, pair.to)]
    ELSE f

\* Line 130: f.heading = (f.heading + (Math.random() * 2 - 1) * 2) % 360.
wander(h, j) == JsMod(h + j, 360)

tickWander(f, j) == [f EXCEPT !.heading = wander(f.heading, j)]

\* The flight as lines 114-118 leave it, before the arrival check.
tickAdvance(f, t) == tickStamp(tickMove(f, stepKm(f, elapsed(f, t))), t)

\* The pair tickArrive is given when line 122 is false and none is drawn.
NoPair == [from |-> Undefined, to |-> Undefined]

\* Advance flight along route by elapsed time since last update: the outcomes
\* of tick(f) when Date.now() returns t, over the random draws.  An outcome is
\* the flight as tick leaves it and whether it took the branch of line 122.
tick(f, t) ==
    IF noTimePassed(elapsed(f, t)) THEN {[flight |-> f, rerouted |-> FALSE]}
    ELSE LET g   == tickAdvance(f, t)
             arr == arrived(g)
         IN  {[flight |-> tickWander(tickArrive(g, pair), j), rerouted |-> arr] :
                 pair \in IF arr THEN pickDifferentAirports ELSE {NoPair},
                 j \in Jitter}

-----------------------------------------------------------------------------
(* The store and the HTTP handlers, each handler one step *)

NoRequest == <<"none">>

NoResponse == [req |-> NoRequest, status |-> 0, body |-> Undefined]

NoTick == [t |-> -1, rerouted |-> FALSE]

Idle == [on |-> FALSE]

\* Lines 99-104: the store after startup, the flights created at a time of ts.
StoreInit(ts) ==
    /\ \E t \in ts : \E rnds \in [Ids -> MakeRandom] :
           FLIGHTS = [id \in Ids |-> makeFlight(id, t, rnds[id])]
    /\ res = NoResponse
    /\ last = [id \in Ids |-> NoTick]

Init ==
    /\ StoreInit(Times)
    /\ conc = Idle
    /\ pick = Idle
    /\ mv = Idle

\* GET /api/flights: tick every flight, each with its own clock reading and
\* random draws, and answer the list.
ListFlights ==
    /\ \E ts \in [Ids -> Times] :
         LET outcomes == [i \in Ids |-> tick(FLIGHTS[i], ts[i])]
         IN  \E outs \in [Ids -> UNION {outcomes[i] : i \in Ids}] :
                /\ \A i \in Ids : outs[i] \in outcomes[i]
                /\ FLIGHTS' = [id \in Ids |-> outs[id].flight]
                /\ last' = [id \in Ids |-> [t |-> ts[id], rerouted |-> outs[id].rerouted]]
    /\ res' = [req |-> <<"list">>, status |-> 200, body |-> FLIGHTS']
    /\ UNCHANGED <<conc, pick, mv>>

\* GET /api/flights/:id with an identifier of the store: tick it, answer it.
GetFlight(id) ==
    /\ id \in DOMAIN FLIGHTS
    /\ \E t \in Times : \E out \in tick(FLIGHTS[id], t) :
            /\ FLIGHTS' = [FLIGHTS EXCEPT ![id] = out.flight]
            /\ last' = [last EXCEPT ![id] = [t |-> t, rerouted |-> out.rerouted]]
    /\ res' = [req |-> <<"get", id>>, status |-> 200, body |-> FLIGHTS'[id]]
    /\ UNCHANGED <<conc, pick, mv>>

\* GET /api/flights/:id with any other identifier: 404, line 145.
GetMissingAnswersOk(id) ==
    /\ id \notin DOMAIN FLIGHTS
    /\ res' = [req |-> <<"get", id>>, status |-> 200, body |-> Undefined]
    /\ UNCHANGED <<FLIGHTS, last, conc, pick, mv>>

GetMissing(id) ==
    /\ id \notin DOMAIN FLIGHTS
    /\ res' = [req |-> <<"get", id>>, status |-> 404, body |-> [error |-> "Not found"]]
    /\ UNCHANGED <<FLIGHTS, last, conc, pick, mv>>

Next ==
    \/ ListFlights
    \/ \E id \in Ids \cup {UnknownId} : GetFlight(id)
    \/ \E id \in Ids \cup {UnknownId} : GetMissing(id)

Spec == Init /\ [][Next]_vars

-----------------------------------------------------------------------------
(* tick as a function of the flight it is given: the flights makeFlight can
   return and, as tick takes any record, the same flights with a destination
   code that no airport of the catalog has. *)

AbsentCode == "XXX"

TickInit ==
    /\ \E t \in Times : \E rnds \in [Ids -> MakeRandom] : \E tos \in [Ids -> BOOLEAN] :
           FLIGHTS = [id \in Ids |->
                         LET f == makeFlight(id, t, rnds[id])
                         IN  IF tos[id] THEN f ELSE [f EXCEPT !.to = AbsentCode]]
    /\ res = NoResponse
    /\ last = [id \in Ids |-> NoTick]
    /\ conc = Idle
    /\ pick = Idle
    /\ mv = Idle

SpecTick == TickInit /\ [][Next]_vars

-----------------------------------------------------------------------------
(* move as a function: one call on arguments drawn from the sets below *)

MoveLats == {-90, -34, 0, 51, 90}

MoveLons == {-180, -179, -1, 0, 139, 179, 180}

\* Headings as tick stores them, -1 included (line 130 can leave it).
MoveBearings == {-1, 0, 45, 90, 180, 270, 359}

MoveKms == {0, 59, 111, 889, 10000, 20015}

MoveInit ==
    /\ mv \in [on : {TRUE}, from : [lat : MoveLats, lon : MoveLons],
               bearingDeg : MoveBearings, distanceKm : MoveKms, result : {Undefined}]
    /\ FLIGHTS = [id \in {} |-> Undefined]
    /\ res = NoResponse
    /\ last = [id \in {} |-> NoTick]
    /\ conc = Idle
    /\ pick = Idle

MoveCall ==
    /\ mv.on
    /\ mv.result = Undefined
    /\ mv' = [mv EXCEPT !.result = move(mv.from, mv.bearingDeg, mv.distanceKm)]
    /\ UNCHANGED <<FLIGHTS, res, last, conc, pick>>

MoveNext == MoveCall

SpecMove == MoveInit /\ [][MoveNext]_vars

-----------------------------------------------------------------------------
(* pickDifferentAirports statement by statement, over a catalog that holds the
   first n airports of AIRPORTS, n = 0 included. *)

\* AIRPORTS[Math.floor(Math.random() * AIRPORTS.length)] for a catalog of n
\* airports: any of them, and undefined (index 0 of an empty array) for n = 0.
drawAirport(n) == IF n = 0 THEN {Undefined} ELSE {AIRPORTS[i] : i \in 1..n}

\* Line 69, the loop condition: to.iata === from.iata.
sameAirportNever(from, to) == FALSE

sameAirport(from, to) == to.iata = from.iata

PickInit ==
    /\ pick \in [on : {TRUE}, n : 0..Len(AIRPORTS), pc : {"l67"},
                 from : {Undefined}, to : {Undefined}, resampled : {FALSE}]
    /\ FLIGHTS = [id \in {} |-> Undefined]
    /\ res = NoResponse
    /\ last = [id \in {} |-> NoTick]
    /\ conc = Idle
    /\ mv = Idle

\* Line 67.
PickFrom ==
    /\ pick.on /\ pick.pc = "l67"
    /\ \E a \in drawAirport(pick.n) : pick' = [pick EXCEPT !.from = a, !.pc = "l68"]
    /\ UNCHANGED <<FLIGHTS, res, last, conc, mv>>

\* Line 68.
PickTo ==
    /\ pick.on /\ pick.pc = "l68"
    /\ \E a \in drawAirport(pick.n) : pick' = [pick EXCEPT !.to = a, !.pc = "l69"]
    /\ UNCHANGED <<FLIGHTS, res, last, conc, mv>>

\* Line 69 with to undefined: reading to.iata throws a TypeError.
PickThrow ==
    /\ pick.on /\ pick.pc = "l69"
    /\ pick.to = Undefined
    /\ pick' = [pick EXCEPT !.pc = "threw"]
    /\ UNCHANGED <<FLIGHTS, res, last, conc, mv>>

\* Line 69, the condition true: draw to again.
PickResample ==
    /\ pick.on /\ pick.pc = "l69"
    /\ pick.to # Undefined
    /\ sameAirport(pick.from, pick.to)
    /\ \E a \in drawAirport(pick.n) : pick' = [pick EXCEPT !.to = a, !.resampled = TRUE]
    /\ UNCHANGED <<FLIGHTS, res, last, conc, mv>>

\* Lines 69-70, the condition false: return { from, to }.
PickReturn ==
    /\ pick.on /\ pick.pc = "l69"
    /\ pick.to # Undefined
    /\ ~sameAirport(pick.from, pick.to)
    /\ pick' = [pick EXCEPT !.pc = "done"]
    /\ UNCHANGED <<FLIGHTS, res, last, conc, mv>>

PickNext == PickFrom \/ PickTo \/ PickThrow \/ PickResample \/ PickReturn

\* A draw of line 69 that differs from the origin.
PickResampleOther == PickResample /\ ~sameAirport(pick.from, pick'.to)

\* Every statement runs when it is reached, and Math.random() is fair: where a
\* draw other than the origin is possible, one is eventually made.
SpecPick ==
    /\ PickInit /\ [][PickNext]_vars
    /\ WF_vars(PickFrom) /\ WF_vars(PickTo) /\ WF_vars(PickThrow)
    /\ WF_vars(PickReturn) /\ WF_vars(PickResampleOther)

-----------------------------------------------------------------------------
(* Concurrent read requests.  A request is received (its callback is queued),
   then its handler runs tick line by line.  The handlers of lines 137-147 are
   synchronous callbacks of a single-threaded event loop: a queued callback
   starts only when no other is on the stack, and runs to its end. *)

ConcTimes == {k * 450000 : k \in 0..MaxConcTick}

Reqs == 1..MaxReq

NoReq == [pc |-> "none", route |-> "none", id |-> "none", t |-> -1, km |-> 0, seen |-> -1]

\* Request r may take a step: no other request's handler has started and not ended.
runsAnytime(r) == TRUE

runs(r) == \A q \in Reqs \ {r} : conc.req[q].pc \in {"none", "pending"}

ConcInit ==
    /\ StoreInit(ConcTimes)
    /\ conc = [on |-> TRUE, req |-> [r \in Reqs |-> NoReq]]
    /\ pick = Idle
    /\ mv = Idle

\* A GET /api/flights or GET /api/flights/:id arrives.
ConcReceive(r) ==
    /\ conc.on /\ conc.req[r].pc = "none"
    /\ \E route \in {"list", "get"} : \E id \in Ids :
           conc' = [conc EXCEPT !.req[r] = [NoReq EXCEPT !.pc = "pending",
                                                         !.route = route, !.id = id]]
    /\ UNCHANGED <<FLIGHTS, res, last, pick, mv>>

\* Lines 108-110 with no time passed: tick returns f, the handler answers.
ConcReturn(r) ==
    /\ conc.on /\ conc.req[r].pc = "pending" /\ runs(r)
    /\ \E t \in ConcTimes :
           /\ noTimePassed(elapsed(FLIGHTS[conc.req[r].id], t))
           /\ res' = [req |-> <<conc.req[r].route, conc.req[r].id>>, status |-> 200,
                      body |-> FLIGHTS[conc.req[r].id]]
    /\ conc' = [conc EXCEPT !.req[r] = NoReq]
    /\ UNCHANGED <<FLIGHTS, last, pick, mv>>

\* Lines 108-112: read the clock and f.updatedAt, compute stepKm.
ConcBegin(r) ==
    /\ conc.on /\ conc.req[r].pc = "pending" /\ runs(r)
    /\ \E t \in ConcTimes :
           LET f == FLIGHTS[conc.req[r].id]
           IN  /\ ~noTimePassed(elapsed(f, t))
               /\ conc' = [conc EXCEPT !.req[r].pc = "l114", !.req[r].t = t,
                                       !.req[r].km = stepKm(f, elapsed(f, t)),
                                       !.req[r].seen = f.updatedAt]
    /\ UNCHANGED <<FLIGHTS, res, last, pick, mv>>

\* Lines 114-117: write the position.
ConcMove(r) ==
    /\ conc.on /\ conc.req[r].pc = "l114" /\ runs(r)
    /\ FLIGHTS' = [FLIGHTS EXCEPT ![conc.req[r].id] = tickMove(@, conc.req[r].km)]
    /\ conc' = [conc EXCEPT !.req[r].pc = "l118"]
    /\ UNCHANGED <<res, last, pick, mv>>

\* Line 118: write updatedAt.
ConcStamp(r) ==
    /\ conc.on /\ conc.req[r].pc = "l118" /\ runs(r)
    /\ FLIGHTS' = [FLIGHTS EXCEPT ![conc.req[r].id] = tickStamp(@, conc.req[r].t)]
    /\ conc' = [conc EXCEPT !.req[r].pc = "l121"]
    /\ UNCHANGED <<res, last, pick, mv>>

\* Lines 121-132 and res.json: re-route, wander, answer.
ConcFinish(r) ==
    /\ conc.on /\ conc.req[r].pc = "l121" /\ runs(r)
    /\ LET f == FLIGHTS[conc.req[r].id]
       IN  \E pair \in IF arrived(f) THEN pickDifferentAirports ELSE {NoPair} :
             \E j \in Jitter :
               FLIGHTS' = [FLIGHTS EXCEPT ![conc.req[r].id] = tickWander(tickArrive(f, pair), j)]
    /\ res' = [req |-> <<conc.req[r].route, conc.req[r].id>>, status |-> 200,
               body |-> FLIGHTS'[conc.req[r].id]]
    /\ conc' = [conc EXCEPT !.req[r] = NoReq]
    /\ UNCHANGED <<last, pick, mv>>

ConcNext ==
    \E r \in Reqs :
        \/ ConcReceive(r)
        \/ ConcReturn(r)
        \/ ConcBegin(r)
        \/ ConcMove(r)
        \/ ConcStamp(r)
        \/ ConcFinish(r)

SpecConc == ConcInit /\ [][ConcNext]_vars

-----------------------------------------------------------------------------
(* Properties *)

Pos(f) == [lat |-> f.lat, lon |-> f.lon]

\* C1: in every reachable state of the store every flight's heading h satisfies
\* 0 <= h < 360, also after the wander of a heading near 0 by a negative amount.
C1_HeadingNormalized ==
    \A id \in DOMAIN FLIGHTS : FLIGHTS[id].heading >= 0 /\ FLIGHTS[id].heading < 360

\* C2: for every flight of the store from # to, at creation and after any
\* sequence of ticks, re-routing ticks included.
C2_OriginDiffersFromDestination ==
    \A id \in DOMAIN FLIGHTS : FLIGHTS[id].from # FLIGHTS[id].to

\* C2 witness: the last tick of a flight re-routed it.
C2_Rerouted ==
    \E id \in DOMAIN FLIGHTS : last[id].rerouted /\ FLIGHTS[id].updatedAt > FLIGHTS[id].createdAt

\* C3: updatedAt >= createdAt always, and no step decreases a flight's
\* updatedAt, whatever the clock reads.
C3_UpdatedAtMonotonic ==
    /\ [](\A id \in DOMAIN FLIGHTS : FLIGHTS[id].updatedAt >= FLIGHTS[id].createdAt)
    /\ [][\A id \in DOMAIN FLIGHTS : FLIGHTS'[id].updatedAt >= FLIGHTS[id].updatedAt]_vars

\* C3 witness: a flight that has advanced was then ticked by GET /api/flights
\* with a clock reading earlier than its updatedAt.
C3_TickedWithEarlierClock ==
    \E id \in DOMAIN FLIGHTS :
        /\ res.req = <<"list">>
        /\ last[id].t >= 0
        /\ last[id].t < FLIGHTS[id].updatedAt
        /\ FLIGHTS[id].updatedAt > FLIGHTS[id].createdAt

\* C4: a step that ticks a flight with a clock reading equal to or earlier than
\* its updatedAt leaves every field of the flight unchanged.
C4_NoTimeNoChange ==
    [][\A id \in DOMAIN FLIGHTS :
          (last'[id].t >= 0 /\ last'[id].t <= FLIGHTS[id].updatedAt)
              => FLIGHTS'[id] = FLIGHTS[id]]_vars

\* C4 witness: GET /api/flights/:id answered a flight whose tick read a clock
\* earlier than the flight's updatedAt.
C4_AnsweredWithoutAdvancing ==
    \E id \in DOMAIN FLIGHTS :
        /\ res.req = <<"get", id>>
        /\ res.body = FLIGHTS[id]
        /\ last[id].t >= 0
        /\ last[id].t < FLIGHTS[id].updatedAt

\* C5: every step leaves id, callsign, speedKts, altitudeFt and createdAt of
\* every flight unchanged, and the position a tick stores, re-routing or not,
\* is the one dead-reckoned from the old position along the old heading.
C5_TickFrame ==
    [][\A id \in DOMAIN FLIGHTS :
          LET f == FLIGHTS[id]
              g == FLIGHTS'[id]
          IN  /\ g.id = f.id
              /\ g.callsign = f.callsign
              /\ g.speedKts = f.speedKts
              /\ g.altitudeFt = f.altitudeFt
              /\ g.createdAt = f.createdAt
              /\ (g.updatedAt # f.updatedAt =>
                     Pos(g) = move(Pos(f), f.heading, stepKm(f, g.updatedAt - f.updatedAt)))
              /\ (g.updatedAt = f.updatedAt => Pos(g) = Pos(f))]_vars

\* C5 witness: a flight was re-routed and is not at its new origin.
C5_ReroutedNotTeleported ==
    \E id \in DOMAIN FLIGHTS :
        /\ last[id].rerouted
        /\ last[id].t = FLIGHTS[id].updatedAt
        /\ Pos(FLIGHTS[id]) # Pos(find(FLIGHTS[id].from))

\* Request r's handler stands inside tick, past line 110.
InTick(r) == conc.req[r].pc \in {"l114", "l118", "l121"}

\* C6: the handlers of two requests never both stand inside tick on the same
\* flight; while a tick stands between reading updatedAt and writing it, the
\* flight's updatedAt is the one it read; and no handler starts while another
\* stands between its position write and its updatedAt write.
C6_OneTickPerFlight ==
    /\ [](\A r \in Reqs : \A q \in Reqs \ {r} :
             (InTick(r) /\ InTick(q)) => conc.req[r].id # conc.req[q].id)
    /\ [](\A r \in Reqs :
             conc.req[r].pc \in {"l114", "l118"}
                 => FLIGHTS[conc.req[r].id].updatedAt = conc.req[r].seen)
    /\ [][\A r \in Reqs :
             (conc.req[r].pc = "pending" /\ conc'.req[r].pc # "pending")
                 => \A q \in Reqs \ {r} : conc.req[q].pc # "l118"]_vars

\* C6 witness: one request stands between the position write and the
\* updatedAt write while another request for the same flight waits.
C6_ReadWaitsForTick ==
    \E r \in Reqs : \E q \in Reqs \ {r} :
        /\ conc.req[r].pc = "l118"
        /\ conc.req[q].pc = "pending"
        /\ conc.req[q].id = conc.req[r].id

\* C7 (as amended): the longitude move returns lies in [-180, 180): it can
\* equal -180 and never equals 180.
C7_LonRange ==
    (mv.on /\ mv.result # Undefined) => (mv.result.lon >= -180 /\ mv.result.lon < 180)

\* C7 witness: move of 0 km from longitude 180 returned longitude -180.
C7_LonMinus180 ==
    /\ mv.on /\ mv.result # Undefined
    /\ mv.from.lon = 180 /\ mv.distanceKm = 0
    /\ mv.result.lon = -180

\* C7 (original): the longitude move returns lies in (-180, 180].
C7_LonHalfOpenBelow ==
    (mv.on /\ mv.result # Undefined) => (mv.result.lon > -180 /\ mv.result.lon <= 180)

\* C8: a fetch by an identifier that is not in the store answers 404 and leaves
\* the store and every flight's tick untouched; the identifiers of the store
\* stay those of startup.
C8_NotFoundLeavesStore ==
    /\ [](DOMAIN FLIGHTS = Ids)
    /\ [][(res' # res /\ res'.req[1] = "get" /\ res'.req[2] \notin DOMAIN FLIGHTS)
             => (/\ res'.status = 404
                 /\ res'.body = [error |-> "Not found"]
                 /\ FLIGHTS' = FLIGHTS
                 /\ last' = last)]_vars

\* C8 witness: a fetch of an unknown identifier was answered 404 after the
\* store's flight had been ticked.
C8_AnsweredNotFound ==
    /\ res.req = <<"get", UnknownId>>
    /\ res.status = 404
    /\ \E id \in DOMAIN FLIGHTS : FLIGHTS[id].updatedAt > FLIGHTS[id].createdAt

\* C9: a tick with positive elapsed time stores the dead-reckoned position and
\* the clock reading; it selects a new pair exactly when the destination code
\* is in the catalog and the new position is less than 30 km from it, and
\* otherwise keeps from and to; the heading is the wander of the new pair's
\* bearing in the first case and of the old heading in the second.
C9_RerouteIffArrived ==
    [][\A id \in DOMAIN FLIGHTS :
          LET f == FLIGHTS[id]
              g == FLIGHTS'[id]
          IN  g.updatedAt # f.updatedAt =>
                LET pos  == move(Pos(f), f.heading, stepKm(f, g.updatedAt - f.updatedAt))
                    dest == find(f.to)
                    near == dest # Undefined /\ distanceKm(pos, dest) < ArriveKm
                IN  /\ Pos(g) = pos
                    /\ g.updatedAt = last'[id].t
                    /\ last'[id].rerouted = near
                    /\ near => /\ g.from # g.to
                               /\ \E j \in Jitter :
                                     g.heading = wander(bearingDegrees(find(g.from),
                                                                       find(g.to)), j)
                    /\ ~near => /\ g.from = f.from
                                /\ g.to = f.to
                                /\ \E j \in Jitter : g.heading = wander(f.heading, j)]_vars

\* C9 witness: a flight whose destination code is not in the catalog was
\* ticked with time passed.
C9_TickedWithAbsentDestination ==
    \E id \in DOMAIN FLIGHTS :
        /\ find(FLIGHTS[id].to) = Undefined
        /\ last[id].t = FLIGHTS[id].updatedAt
        /\ FLIGHTS[id].updatedAt > FLIGHTS[id].createdAt

\* C10 (as amended): with at least 2 airports pickDifferentAirports returns;
\* with exactly 1 airport it never leaves its loop; with none it never returns
\* (reading to.iata throws).
C10_PickTermination ==
    /\ (pick.n >= 2) ~> (pick.pc = "done")
    /\ [](pick.n = 1 => pick.pc \notin {"done", "threw"})
    /\ [](pick.n = 0 => pick.pc # "done")

\* C10 witness: with at least 2 airports the call returned two different
\* airports after drawing again.
C10_ReturnedAfterResampling ==
    /\ pick.on /\ pick.n >= 2
    /\ pick.pc = "done" /\ pick.resampled
    /\ pick.from.iata # pick.to.iata

\* C10 (original, its second half): with fewer than 2 airports the loop never
\* terminates.
C10_LoopNeverEndsBelowTwo ==
    (pick.on /\ pick.n < 2) => pick.pc \notin {"done", "threw"}

====
